---- MODULE Spec2Model ----
(***************************************************************************)
(* Model of src/main.py: the NASA APOD fetcher (get_nasa_apod), the Groq   *)
(* text simplifier (simplify_with_ai), the per-date orchestrator           *)
(* (process_and_display) and main().                                       *)
(*                                                                         *)
(* The program is sequential.  The nondeterminism of the model is the      *)
(* environment: the two API keys, what the APOD endpoint answers, what the *)
(* completion service answers and what the file system does.               *)
(*                                                                         *)
(* A Python str is a sequence of pieces: the characters of a variable text *)
(* are one-character strings, a literal of the source is kept as one       *)
(* piece.  A JSON / Python value is a record [kind, s]: kind "str" with    *)
(* its characters in s, or a non-string kind ("num", "null") with s empty. *)
(* Console lines printed inside get_nasa_apod and simplify_with_ai carry   *)
(* no data a caller reads and are not modelled.                            *)
(***************************************************************************)
EXTENDS Integers, Sequences, FiniteSets, TLC

VARIABLES
    NASA_KEY,                \* module global, main.py:32
    GROQ_API_KEY,            \* module global, main.py:33
    pc,                      \* position of the single thread of control
    di,                      \* index (1..3) of the date main() is processing
    nasa_data,               \* local of process_and_display, main.py:186
    completion,              \* what the completion service did for the current date
    simplified_explanation,  \* local of process_and_display, main.py:198
    files,                   \* screenshots/output_<date>.txt, per date
    stdout,                  \* lines printed by main and process_and_display
    trace,                   \* external effects in order: GET, COMPLETION, OPEN, SLEEP
    fetched,                 \* per date: what the APOD endpoint answered
    exception                \* name of the uncaught exception that ended the run, or ""

vars == << NASA_KEY, GROQ_API_KEY, pc, di, nasa_data, completion,
           simplified_explanation, files, stdout, trace, fetched, exception >>

(***************************************************************************)
(* Bounds of the model and constants of the program                        *)
(***************************************************************************)
\* longest explanation text given to simplify_with_ai in SpecSimplify
MaxTextLen == 302

\* text[:300], main.py:164
TruncLen == 300

\* number of f.write calls of the save step, main.py:230-237
NumWrites == 8

\* the three process_and_display calls of main(), main.py:284-294
DATES == << "2024-12-10", "2024-03-15", "2024-01-20" >>

NumDates == Len(DATES)

DateSet == { DATES[k] : k \in 1..NumDates }

(***************************************************************************)
(* Values                                                                  *)
(***************************************************************************)
Str(s) == [kind |-> "str", s |-> s]

Num == [kind |-> "num", s |-> << >>]

Null == [kind |-> "null", s |-> << >>]

\* a key that is absent from a JSON object
Missing == [kind |-> "missing", s |-> << >>]

\* Python truthiness of a JSON value: "" and null are falsy; the number of the
\* model (Num) stands for a non-zero number
Truthy(v) == \/ v.kind = "str" /\ v.s # << >>
             \/ v.kind = "num"

Chars == << "a", "b", "c", "d", "e", "f", "g" >>

\* a text of n characters whose character at position j depends on j
MkText(n, off) == [j \in 1..n |-> Chars[((j + off) % Len(Chars)) + 1]]

Take(s, n) == SubSeq(s, 1, IF Len(s) < n THEN Len(s) ELSE n)

\* the explanation text of the APOD entries of the main specification
EXPLANATION == Str(MkText(3, 0))

\* the text the completion service returns on success
MODEL_TEXT == Str(<< "s", "i", "m", "p", "l", "e" >>)

(***************************************************************************)
(* The APOD endpoint: what requests.get / raise_for_status / json() yield  *)
(***************************************************************************)
\* A parsed JSON body.  t is its JSON type; has tells whether the Python test
\* 'explanation' in data is true of an array (an element equal to it) or of a
\* string (a substring); an object carries its explanation value and whether
\* the title and url keys are present.
Body(t, has, explanation, title, url) ==
    [t |-> t, has |-> has, explanation |-> explanation, title |-> title, url |-> url]

Object(explanation, title, url) ==
    Body("object", explanation.kind # "missing", explanation, title, url)

NonObject(t, has) == Body(t, has, Missing, FALSE, FALSE)

\* Python's None as the value of nasa_data
None == NonObject("None", FALSE)

\* no body: the request failed, or the body is not JSON
NoBody == NonObject("invalid", FALSE)

Response(status, body) == [status |-> status, body |-> body]

\* the answers of the endpoint the model draws from
Responses ==
    { Response("timeout", NoBody),       \* requests.exceptions.Timeout
      Response("conn_error", NoBody),    \* another RequestException of get()
      Response("http_error", NoBody),    \* 4xx / 5xx: raise_for_status() raises
      Response("ok", NoBody),            \* 2xx, body is not parseable JSON
      Response("ok", NonObject("null", FALSE)),
      Response("ok", NonObject("number", FALSE)),
      Response("ok", NonObject("array", FALSE)),
      Response("ok", NonObject("array", TRUE)),
      Response("ok", NonObject("string", FALSE)),
      Response("ok", Object(Missing, TRUE, TRUE)),
      Response("ok", Object(Str(<< >>), TRUE, TRUE)),
      Response("ok", Object(Null, TRUE, TRUE)),
      Response("ok", Object(EXPLANATION, TRUE, TRUE)),
      Response("ok", Object(EXPLANATION, FALSE, TRUE)),
      Response("ok", Object(EXPLANATION, TRUE, FALSE)),
      Response("ok", Object(Num, TRUE, TRUE)) }

\* before the request of a date
NoResponse == Response("none", NoBody)

\* what a call returns: the exception it raised ("" when none) and its value
Returned(value) == [raised |-> "", value |-> value]

Raised(name) == [raised |-> name, value |-> None]

\* 'explanation' in data, for the types on which Python's `in` is defined
Contains(data) ==
    IF data.t = "object" THEN data.explanation.kind # "missing" ELSE data.has

\* the fetcher testing only that the explanation key is present
get_nasa_apod_key_only(resp) ==
    IF resp.status # "ok" \/ resp.body.t = "invalid" THEN Returned(None)
    ELSE IF resp.body.t \notin {"object", "array", "string"} THEN Raised("TypeError")
    ELSE IF ~Contains(resp.body) THEN Returned(None)
    ELSE IF resp.body.t # "object" THEN Raised("TypeError")
    ELSE Returned(resp.body)

\* main.py:60-96
get_nasa_apod(resp) ==
    IF resp.status = "timeout" THEN Returned(None)              \* line 85-88
    ELSE IF resp.status \in {"conn_error", "http_error"}
         THEN Returned(None)                                    \* line 89-92
    ELSE IF resp.body.t = "invalid" THEN Returned(None)         \* line 73, 89-96
    ELSE IF resp.body.t \notin {"object", "array", "string"}
         THEN Raised("TypeError")          \* line 78: `in` on None / a number
    ELSE IF ~Contains(resp.body) THEN Returned(None)            \* line 78-80
    ELSE IF resp.body.t # "object"
         THEN Raised("TypeError")          \* line 78: data['explanation']
    ELSE IF ~Truthy(resp.body.explanation) THEN Returned(None)  \* line 78-80
    ELSE Returned(resp.body)                                    \* line 83

(***************************************************************************)
(* The completion service                                                  *)
(***************************************************************************)
Outcome(kind, exc, content) == [kind |-> kind, exc |-> exc, content |-> content]

\* a local that is not bound yet
Unset == [kind |-> "unset", s |-> << >>]

\* what constructing the client and calling chat.completions.create can do
CompletionOutcomes ==
    { Outcome("client_error", "GroqError", Unset),       \* Groq(...) raises, line 123
      Outcome("call_error", "APIConnectionError", Unset),\* create() raises, line 130
      Outcome("no_choices", "IndexError", Unset),        \* choices[0] raises, line 153
      Outcome("ok", "", MODEL_TEXT) }                    \* a first choice with text

NoCompletion == Outcome("none", "", Unset)

FallbackMarker == "[AI Simplification unavailable"

FallbackMiddle == "]\n\nOriginal explanation (truncated):\n"

Ellipsis == "..."

\* the fallback string built from the whole text, without [:300]
FallbackWholeText(exc, text) ==
    << FallbackMarker, " - ", exc, FallbackMiddle >> \o text \o << Ellipsis >>

\* the f-string of main.py:164
Fallback(exc, text) ==
    << FallbackMarker, " - ", exc, FallbackMiddle >> \o Take(text, TruncLen) \o << Ellipsis >>

\* the simplifier cutting the completion text short on success
simplify_with_ai_cut(text, outcome) ==
    IF outcome.kind = "ok"
    THEN Returned(Str(SubSeq(outcome.content.s, 1, Len(outcome.content.s) - 1)))
    ELSE IF text.kind # "str" THEN Raised("TypeError")
    ELSE Returned(Str(<< FallbackMarker, " - ", outcome.exc, FallbackMiddle >>
                        \o SubSeq(text.s, 1, IF Len(text.s) < TruncLen
                                             THEN Len(text.s) ELSE TruncLen)
                        \o << Ellipsis >>))

\* main.py:120-164.  text is the value of nasa_data['explanation'].
simplify_with_ai(text, outcome) ==
    IF outcome.kind = "ok" THEN Returned(outcome.content)       \* line 153
    ELSE IF text.kind # "str"
         THEN Raised("TypeError")   \* line 164: text[:300] of a non-string,
                                    \* raised inside the except block
    ELSE Returned(Str(Fallback(outcome.exc, text.s)))           \* line 155-164

(***************************************************************************)
(* Console and file output of process_and_display                          *)
(***************************************************************************)
Line(tag, date, text) == [tag |-> tag, date |-> date, text |-> text]

Lit(s) == Str(<< s >>)

\* main.py:203-216: the lines printed, and the KeyError of a missing key
display(date, data, simplified) ==
    LET head == << Line("DATE", date, Lit(date)) >>
    IN  IF ~data.title THEN [raised |-> "KeyError", lines |-> head]      \* line 205
        ELSE IF ~data.url
             THEN [raised |-> "KeyError",
                   lines |-> head \o << Line("TITLE", date, Lit("title")) >>] \* line 206
        ELSE [raised |-> "",
              lines |-> head \o << Line("TITLE", date, Lit("title")),
                                   Line("URL", date, Lit("url")),
                                   Line("ORIGINAL", date, data.explanation),
                                   Line("SIMPLIFIED", date, simplified) >>]

\* the save step without its last f.write
WritePiecesNoSimplified(date, data, simplified) ==
    << Line("HEADER", date, Lit("NASA + Groq AI Space Simplifier\n")),
       Line("DATE", date, Lit(date)),
       Line("TITLE", date, Lit("title")),
       Line("URL", date, Lit("url")),
       Line("ORIGINAL_HEADING", date, Lit("ORIGINAL EXPLANATION:\n")),
       Line("ORIGINAL", date, data.explanation),
       Line("SIMPLIFIED_HEADING", date, Lit("\n\nSIMPLIFIED VERSION:\n")) >>

\* the arguments of the eight f.write calls, main.py:230-237
WritePieces(date, data, simplified) ==
    << Line("HEADER", date, Lit("NASA + Groq AI Space Simplifier\n")),
       Line("DATE", date, Lit(date)),
       Line("TITLE", date, Lit("title")),
       Line("URL", date, Lit("url")),
       Line("ORIGINAL_HEADING", date, Lit("ORIGINAL EXPLANATION:\n")),
       Line("ORIGINAL", date, data.explanation),
       Line("SIMPLIFIED_HEADING", date, Lit("\n\nSIMPLIFIED VERSION:\n")),
       Line("SIMPLIFIED", date, simplified) >>

File(exists, content) == [exists |-> exists, content |-> content]

NoFile == File(FALSE, << >>)

\* what the file system does: makedirs and open succeed or raise OSError, and
\* `writes` of the f.write calls go through before one raises (NumWrites: all)
Fs(mkdir, open, writes) == [mkdir |-> mkdir, open |-> open, writes |-> writes]

FsOutcomes ==
    { Fs(FALSE, FALSE, 0), Fs(TRUE, FALSE, 0) }
        \cup { Fs(TRUE, TRUE, k) : k \in 0..NumWrites }

\* f.write(x) raises TypeError when x is not a str
Written(pieces, fs) ==
    LET bad == { k \in 1..Len(pieces) : pieces[k].text.kind # "str" }
        lim == IF bad = {} THEN Len(pieces)
               ELSE (CHOOSE k \in bad : \A m \in bad : k <= m) - 1
    IN  IF fs.writes < lim THEN fs.writes ELSE lim

\* main.py:221-243: the file after the save step, and whether the try block
\* ran to its end
save(date, data, simplified, fs, old) ==
    LET pieces == WritePieces(date, data, simplified)
        n == Written(pieces, fs)
    IN  IF ~fs.mkdir \/ ~fs.open
        THEN [file |-> old, opened |-> FALSE, ok |-> FALSE]       \* line 223, 229
        ELSE [file |-> File(TRUE, SubSeq(pieces, 1, n)),          \* 'w' truncates
              opened |-> TRUE, ok |-> n = Len(pieces)]

(***************************************************************************)
(* The program                                                             *)
(***************************************************************************)
\* os.getenv gives None for an unset variable, "" for an empty one
KeyValues == { Null, Str(<< >>), Lit("DEMO_KEY") }

\* the key check with `and` in place of `or`
KeysMissingBoth(nasa_key, groq_key) == ~Truthy(nasa_key) /\ ~Truthy(groq_key)

\* main.py:269
KeysMissing(nasa_key, groq_key) == ~Truthy(nasa_key) \/ ~Truthy(groq_key)

Event(ev, date) == [ev |-> ev, date |-> date]

date == DATES[di]

\* where control goes when process_and_display returns to main, main.py:284-299
AfterReturn(k) == IF k < NumDates THEN "fetch" ELSE "complete"

\* process_and_display returns: its locals are gone and main calls it for the
\* next date or prints the closing banner
ReturnToMain ==
    /\ pc' = AfterReturn(di)
    /\ di' = IF di < NumDates THEN di + 1 ELSE di
    /\ nasa_data' = None
    /\ completion' = NoCompletion
    /\ simplified_explanation' = Unset

\* an exception no handler catches ends the run
Crash(name) ==
    /\ pc' = "crashed"
    /\ exception' = name

Init ==
    /\ NASA_KEY \in KeyValues
    /\ GROQ_API_KEY \in KeyValues
    /\ pc = "main"
    /\ di = 1
    /\ nasa_data = None
    /\ completion = NoCompletion
    /\ simplified_explanation = Unset
    /\ files = [d \in DateSet |-> NoFile]
    /\ stdout = << >>
    /\ trace = << >>
    /\ fetched = [d \in DateSet |-> NoResponse]
    /\ exception = ""

\* main.py:261-279: the banner and the check of the two keys
Main ==
    /\ pc = "main"
    /\ IF KeysMissing(NASA_KEY, GROQ_API_KEY)
       THEN /\ stdout' = Append(stdout, Line("KEYS_ERROR", "", Unset))
            /\ pc' = "halted"                                      \* line 275
       ELSE /\ stdout' = Append(stdout, Line("KEYS_LOADED", "", Unset))
            /\ pc' = "fetch"                                       \* line 284
    /\ UNCHANGED << NASA_KEY, GROQ_API_KEY, di, nasa_data, completion,
                    simplified_explanation, files, trace, fetched, exception >>

\* main.py:180-193: the GET of get_nasa_apod and the check of its result
Fetch(resp) ==
    /\ pc = "fetch"
    /\ trace' = Append(trace, Event("GET", date))                  \* line 65
    /\ fetched' = [fetched EXCEPT ![date] = resp]
    /\ LET r == get_nasa_apod(resp)
       IN  IF r.raised # ""
           THEN /\ Crash(r.raised)
                /\ UNCHANGED << di, nasa_data, completion, simplified_explanation,
                                stdout >>
           ELSE IF r.value = None                                  \* line 191
           THEN /\ stdout' = Append(stdout, Line("SKIP", date, Unset))
                /\ ReturnToMain                                    \* line 193
                /\ UNCHANGED exception
           ELSE /\ nasa_data' = r.value
                /\ pc' = "simplify"
                /\ UNCHANGED << di, completion, simplified_explanation, stdout,
                                exception >>
    /\ UNCHANGED << NASA_KEY, GROQ_API_KEY, files >>

\* main.py:198: the call of simplify_with_ai
Simplify(outcome) ==
    /\ pc = "simplify"
    /\ completion' = outcome
    /\ trace' = IF outcome.kind = "client_error" THEN trace        \* no call is made
                ELSE Append(trace, Event("COMPLETION", date))      \* line 130
    /\ LET r == simplify_with_ai(nasa_data.explanation, outcome)
       IN  IF r.raised # ""
           THEN /\ Crash(r.raised)
                /\ UNCHANGED simplified_explanation
           ELSE /\ simplified_explanation' = r.value
                /\ pc' = "display"
                /\ UNCHANGED exception
    /\ UNCHANGED << NASA_KEY, GROQ_API_KEY, di, nasa_data, files, stdout, fetched >>

\* main.py:203-216
Display ==
    /\ pc = "display"
    /\ LET r == display(date, nasa_data, simplified_explanation)
       IN  /\ stdout' = stdout \o r.lines
           /\ IF r.raised # ""
              THEN Crash(r.raised)
              ELSE pc' = "save" /\ UNCHANGED exception
    /\ UNCHANGED << NASA_KEY, GROQ_API_KEY, di, nasa_data, completion,
                    simplified_explanation, files, trace, fetched >>

\* main.py:221-243
Save(fs) ==
    /\ pc = "save"
    /\ LET r == save(date, nasa_data, simplified_explanation, fs, files[date])
       IN  /\ files' = [files EXCEPT ![date] = r.file]
           /\ trace' = IF r.opened THEN Append(trace, Event("OPEN", date)) ELSE trace
           /\ stdout' = Append(stdout,
                 Line(IF r.ok THEN "SAVED" ELSE "SAVE_FAILED", date, Unset))
    /\ pc' = "sleep"
    /\ UNCHANGED << NASA_KEY, GROQ_API_KEY, di, nasa_data, completion,
                    simplified_explanation, fetched, exception >>

\* process_and_display returning after the save step without time.sleep(1)
ReturnWithoutSleep ==
    /\ pc = "sleep"
    /\ ReturnToMain
    /\ UNCHANGED << NASA_KEY, GROQ_API_KEY, files, stdout, trace, fetched, exception >>

\* main.py:247, then the return to main
Sleep ==
    /\ pc = "sleep"
    /\ trace' = Append(trace, Event("SLEEP", date))
    /\ ReturnToMain
    /\ UNCHANGED << NASA_KEY, GROQ_API_KEY, files, stdout, fetched, exception >>

\* main.py:296-299
Complete ==
    /\ pc = "complete"
    /\ stdout' = Append(stdout, Line("COMPLETE", "", Unset))
    /\ pc' = "done"
    /\ UNCHANGED << NASA_KEY, GROQ_API_KEY, di, nasa_data, completion,
                    simplified_explanation, files, trace, fetched, exception >>

Next ==
    \/ Main
    \/ \E resp \in Responses : Fetch(resp)
    \/ \E outcome \in CompletionOutcomes : Simplify(outcome)
    \/ Display
    \/ \E fs \in FsOutcomes : Save(fs)
    \/ Sleep
    \/ Complete

Spec == Init /\ [][Next]_vars

(***************************************************************************)
(* simplify_with_ai on its own: the caller holds a record whose explanation*)
(* is a text of any length up to MaxTextLen, and the call is made          *)
(***************************************************************************)
InitSimplify ==
    /\ NASA_KEY = Lit("DEMO_KEY")
    /\ GROQ_API_KEY = Lit("DEMO_KEY")
    /\ pc = "simplify"
    /\ di = 1
    /\ \E n \in 0..MaxTextLen, off \in {0, 3} :
          nasa_data = Object(Str(MkText(n, off)), TRUE, TRUE)
    /\ completion = NoCompletion
    /\ simplified_explanation = Unset
    /\ files = [d \in DateSet |-> NoFile]
    /\ stdout = << Line("KEYS_LOADED", "", Unset) >>
    /\ trace = << Event("GET", DATES[1]) >>
    /\ fetched = [d \in DateSet |->
                    IF d = DATES[1] THEN Response("ok", nasa_data) ELSE NoResponse]
    /\ exception = ""

NextSimplify == \E outcome \in CompletionOutcomes : Simplify(outcome)

SpecSimplify == InitSimplify /\ [][NextSimplify]_vars

(***************************************************************************)
(* Vocabulary of the properties                                            *)
(***************************************************************************)
KeyAbsent(k) == k = Null \/ k = Str(<< >>)

KeysPresent == ~KeyAbsent(NASA_KEY) /\ ~KeyAbsent(GROQ_API_KEY)

Terminated == pc \in {"done", "halted", "crashed"}

Count(ev, d) == Cardinality({ k \in 1..Len(trace) : trace[k] = Event(ev, d) })

Gets == SelectSeq(trace, LAMBDA e : e.ev = "GET")

Printed(tag, d) == \E k \in 1..Len(stdout) : stdout[k].tag = tag /\ stdout[k].date = d

\* process_and_display(d) returned at line 193
Skipped(d) == Printed("SKIP", d)

\* process_and_display(d) ran to its last statement, line 247
Slept(d) == Count("SLEEP", d) > 0

\* the try block of the save step ran to its end, line 239
Saved(d) == Printed("SAVED", d)

\* the JSON object answered for d has no explanation key, or an empty one
ExplanationAbsent(resp) ==
    /\ resp.status = "ok"
    /\ resp.body.t = "object"
    /\ resp.body.explanation \in { Missing, Str(<< >>), Null }

\* the file of d holds the original explanation and the simplified text that
\* was printed for d
FileHasBoth(d) ==
    /\ files[d].exists
    /\ \E k \in 1..Len(files[d].content) :
          files[d].content[k] = Line("ORIGINAL", d, fetched[d].body.explanation)
    /\ \E k \in 1..Len(files[d].content), m \in 1..Len(stdout) :
          /\ files[d].content[k].tag = "SIMPLIFIED"
          /\ files[d].content[k] = stdout[m]

(***************************************************************************)
(* Properties                                                              *)
(***************************************************************************)
\* C1: when NASA_KEY or GROQ_API_KEY is unset or empty, main() halts before
\* any network call: no GET, no completion call and no file write ever occurs
\* in that run.
C1_MissingKeyHalts ==
    (KeyAbsent(NASA_KEY) \/ KeyAbsent(GROQ_API_KEY)) =>
        /\ pc \in {"main", "halted"}
        /\ trace = << >>
        /\ \A d \in DateSet : files[d] = NoFile /\ fetched[d] = NoResponse
        /\ exception = ""

\* C1 witness: the run halted with only one of the two keys missing
C1_Witness ==
    /\ pc = "halted"
    /\ NASA_KEY = Lit("DEMO_KEY")
    /\ GROQ_API_KEY = Str(<< >>)
    /\ Printed("KEYS_ERROR", "")

\* C4: when the JSON object answered for a date has no explanation, or an
\* empty one, get_nasa_apod returns None: the date is skipped, the completion
\* service is not called for it and no file of that date is written.
C4_NoExplanationNoDownstream ==
    \A d \in DateSet :
        ExplanationAbsent(fetched[d]) =>
            /\ Skipped(d)
            /\ d = date => pc \notin {"simplify", "display", "save", "sleep"}
            /\ Count("GET", d) = 1
            /\ Count("COMPLETION", d) = 0
            /\ Count("OPEN", d) = 0
            /\ files[d] = NoFile
            /\ ~Printed("SIMPLIFIED", d)

\* C4 witness: a run that ended after one date answered without the explanation
\* key and another with an empty explanation
C4_Witness ==
    /\ pc = "done"
    /\ fetched[DATES[1]] = Response("ok", Object(Missing, TRUE, TRUE))
    /\ fetched[DATES[2]] = Response("ok", Object(Str(<< >>), TRUE, TRUE))
    /\ Slept(DATES[3])

\* C8: on a successful completion, simplify_with_ai returns exactly the text of
\* the first choice, and that value is what process_and_display prints as the
\* simplified version and writes to the file of the date.
C8_SuccessTextUnmodified ==
    completion.kind = "ok" =>
        /\ pc \in {"display", "save", "sleep"} =>
              simplified_explanation = completion.content
        /\ pc \in {"save", "sleep"} =>
              \E k \in 1..Len(stdout) :
                  stdout[k] = Line("SIMPLIFIED", date, completion.content)
        /\ \A k \in 1..Len(stdout) :
              (stdout[k].tag = "SIMPLIFIED" /\ stdout[k].date = date) =>
                  stdout[k].text = completion.content
        /\ \A k \in 1..Len(files[date].content) :
              files[date].content[k].tag = "SIMPLIFIED" =>
                  files[date].content[k].text = completion.content
        /\ (pc = "sleep" /\ Saved(date)) =>
              \E k \in 1..Len(files[date].content) :
                  files[date].content[k] = Line("SIMPLIFIED", date, completion.content)

\* C8 witness: the second date was simplified by the service, printed and saved
C8_Witness ==
    /\ pc = "sleep"
    /\ di = 2
    /\ completion.kind = "ok"
    /\ simplified_explanation = MODEL_TEXT
    /\ Saved(date)
    /\ files[date].content[NumWrites] = Line("SIMPLIFIED", date, MODEL_TEXT)

\* C7: on a failure of the completion service (the client cannot be built, the
\* call raises, the response has no choices) simplify_with_ai, given a text,
\* does not raise: it returns a string that starts with the fallback marker
\* and whose text part is exactly the first min(len(text), 300) characters of
\* the input, with nothing of the input beyond position 300.
C7_FallbackOnFailure ==
    (completion.kind \in {"client_error", "call_error", "no_choices"}
        /\ nasa_data.explanation.kind = "str") =>
        LET text == nasa_data.explanation.s
            out == simplified_explanation.s
            n == IF Len(text) < 300 THEN Len(text) ELSE 300
        IN  /\ pc = "display"
            /\ exception = ""
            /\ simplified_explanation.kind = "str"
            /\ out[1] = "[AI Simplification unavailable"
            /\ out[3] = completion.exc
            /\ Len(out) = n + 5
            /\ \A j \in 1..n : out[4 + j] = text[j]
            /\ \A j \in 1..Len(out) : j > 4 + n => out[j] = "..."

\* C7 witness: a response without choices for a text of more than 300
\* characters, whose 300th character is the last one kept
C7_Witness ==
    /\ pc = "display"
    /\ completion.kind = "no_choices"
    /\ Len(nasa_data.explanation.s) = TruncLen + 2
    /\ Len(simplified_explanation.s) = TruncLen + 5
    /\ simplified_explanation.s[TruncLen + 4] = nasa_data.explanation.s[TruncLen]

\* C6 as stated: for each date whose fetch returned a record, once
\* process_and_display has finished, the file of the date exists and holds the
\* original explanation and the simplified text, whatever the file system did.
C6_FileAlwaysWritten ==
    \A d \in DateSet : Slept(d) => FileHasBoth(d)

\* C6 amended: once process_and_display has finished for a date whose fetch
\* returned a record, the file of the date was opened at most once, and it
\* exists and holds the original explanation and the simplified text (the
\* service's text or the fallback) exactly when the save step ran to its end
\* without an error; after a failure of makedirs, open or a write the file is
\* absent or lacks the simplified text.
C6_FileWrittenWhenSaveSucceeds ==
    \A d \in DateSet :
        Slept(d) =>
            /\ Count("OPEN", d) <= 1
            /\ Saved(d) => (FileHasBoth(d) /\ Count("OPEN", d) = 1
                              /\ Len(files[d].content) = NumWrites)
            /\ ~Saved(d) => /\ Printed("SAVE_FAILED", d)
                            /\ \A k \in 1..Len(files[d].content) :
                                  files[d].content[k].tag # "SIMPLIFIED"
            /\ files[d].exists <=> Count("OPEN", d) = 1

\* C6 witness: a finished run that saved the fallback text for the first date
\* and the service's text for the second, and failed to save the third
C6_Witness ==
    /\ pc = "done"
    /\ Saved(DATES[1]) /\ FileHasBoth(DATES[1])
    /\ files[DATES[1]].content[NumWrites].text.s[1] = FallbackMarker
    /\ Saved(DATES[2]) /\ FileHasBoth(DATES[2])
    /\ files[DATES[2]].content[NumWrites].text = MODEL_TEXT
    /\ Slept(DATES[3]) /\ ~Saved(DATES[3]) /\ files[DATES[3]].exists

C2_NothingFatal ==
    KeysPresent =>
        /\ pc # "crashed"
        /\ exception = ""
        /\ Terminated =>
              /\ pc = "done"
              /\ Printed("COMPLETE", "")
              /\ Gets = [k \in 1..NumDates |-> Event("GET", DATES[k])]

\* C3: whenever get_nasa_apod returns a record, the record has its title, its
\* explanation and its url, so the reads of process_and_display succeed.
C3_RecordHasAllFields ==
    /\ nasa_data # None =>
          /\ nasa_data.title
          /\ nasa_data.url
          /\ Truthy(nasa_data.explanation)
    /\ exception # "KeyError"

\* C5: get_nasa_apod never lets an error reach its caller: a timeout, a
\* network error, an error status, a body that is not JSON, a JSON body that
\* is not an object and a missing or empty explanation all make it return
\* None, so the date is skipped.
C5_FetchNeverRaises ==
    \A d \in DateSet :
        (/\ fetched[d] # NoResponse
         /\ \/ fetched[d].status # "ok"
            \/ fetched[d].body.t # "object"
            \/ ExplanationAbsent(fetched[d])) =>
            /\ Skipped(d)
            /\ ~(pc = "crashed" /\ d = date)

\* C10: no retries and strict order: with both keys present, a run that has
\* ended issued exactly one GET per date; no date gets more than one
\* completion call; the completion call of a date follows its GET, the file of
\* a date is opened after its completion step, and nothing of a later date
\* happens before the earlier date is finished.
C10_OneFetchPerDateInOrder ==
    KeysPresent =>
        /\ \A d \in DateSet : Count("GET", d) <= 1 /\ Count("COMPLETION", d) <= 1
        /\ \A j, k \in 1..Len(trace) :
              j < k =>
                  \E m, n \in 1..NumDates :
                      /\ m <= n
                      /\ trace[j].date = DATES[m]
                      /\ trace[k].date = DATES[n]
        /\ \A k \in 1..Len(trace) :
              trace[k].ev # "GET" =>
                  \E j \in 1..(k - 1) : trace[j] = Event("GET", trace[k].date)
        /\ Terminated => \A d \in DateSet : Count("GET", d) = 1

\* The part of C10 the code keeps: at most one GET and one completion call per
\* date, the events of a date in the order GET, COMPLETION, OPEN, SLEEP, and the
\* dates in the order of DATES.
C10_AtMostOnceInOrder ==
    /\ \A d \in DateSet :
          /\ Count("GET", d) <= 1
          /\ Count("COMPLETION", d) <= 1
          /\ Count("OPEN", d) <= 1
    /\ \A j, k \in 1..Len(trace) :
          j < k =>
              \E m, n \in 1..NumDates :
                  /\ m <= n
                  /\ trace[j].date = DATES[m]
                  /\ trace[k].date = DATES[n]
                  /\ m = n =>
                        << trace[j].ev, trace[k].ev >> \in
                            { << "GET", "COMPLETION" >>, << "GET", "OPEN" >>,
                              << "GET", "SLEEP" >>, << "COMPLETION", "OPEN" >>,
                              << "COMPLETION", "SLEEP" >>, << "OPEN", "SLEEP" >> }
    /\ \A k \in 1..Len(trace) :
          trace[k].ev # "GET" =>
              \E j \in 1..(k - 1) : trace[j] = Event("GET", trace[k].date)

====
